---- MODULE Spec2Model ----
(***************************************************************************)
(* Model of src/app/page.tsx: the FogNetworkSimulation component.          *)
(*                                                                         *)
(* State: the React state (nodes, edges, networkParams), the locals of a   *)
(* running initializeNetwork (newNodes, newEdges, index, pc) and whether   *)
(* the mount effect has run.                                               *)
(*                                                                         *)
(* Two specifications:                                                     *)
(*   SpecGen  one call of initializeNetwork, statement by statement, from  *)
(*            every parameter record and placement of a bounded domain;    *)
(*   Spec     the mounted component: the mount effect, the three inputs'   *)
(*            onChange handlers (each followed by the re-render's effect)  *)
(*            and the Regenerate button.                                   *)
(*                                                                         *)
(* Numbers.  A JavaScript number is a record [nan, num, den]: NaN, or the  *)
(* rational num/den (den > 0).  The result of Math.sqrt on an integer n is *)
(* kept exactly, as [sq |-> n], the non-negative real whose square is n.   *)
(* Node coordinates are integers of the drawing area, so every distance is *)
(* the square root of an integer and its comparison with a threshold is    *)
(* exact.  The cosmetic fields of a node (resources, color) are left out:  *)
(* nothing reads them but the rendering.                                   *)
(***************************************************************************)
EXTENDS Integers, Sequences, FiniteSets

VARIABLES nodes, edges, networkParams, mounted, newNodes, newEdges, index, pc

vars == <<nodes, edges, networkParams, mounted, newNodes, newEdges, index, pc>>

(***************************************************************************)
(* Bounds of the model.                                                    *)
(***************************************************************************)
\* SpecGen draws numNodes from 1..MaxNodes.
MaxNodes == 3
\* SpecGen draws maxConnections from 0..MaxCap.
MaxCap == 2
\* Under Spec a placement chooses the positions of the first MaxFree nodes
\* freely; node k > MaxFree is placed where node k - MaxFree is.  (Under
\* SpecGen every node of a placement is placed freely.)
MaxFree == 2

\* The positions SpecGen places a node at, inside [0,400) x [0,300).
\* Distances: 6, 8, 10, 10, sqrt(292), 20.
Positions == { <<0, 0>>, <<6, 0>>, <<6, 8>>, <<12, 16>> }

\* The positions Spec places a node at: two of them, 20 apart.
FarPositions == { <<0, 0>>, <<12, 16>> }

(***************************************************************************)
(* JavaScript numbers.                                                     *)
(***************************************************************************)
Num(n) == [nan |-> FALSE, num |-> n, den |-> 1]

Rat(n, d) == [nan |-> FALSE, num |-> n, den |-> d]

NaN == [nan |-> TRUE, num |-> 0, den |-> 1]

\* a < b; false when either is NaN.
Lt(a, b) == ~a.nan /\ ~b.nan /\ a.num * b.den < b.num * a.den

\* Object.is(a, b) on numbers: NaN is the same value as NaN.
SameValue(a, b) ==
    IF a.nan \/ b.nan THEN a.nan /\ b.nan
    ELSE a.num * b.den = b.num * a.den

\* Math.max(a, b): NaN if either argument is NaN.
MathMax(a, b) ==
    IF a.nan \/ b.nan THEN NaN
    ELSE IF Lt(a, b) THEN b ELSE a

\* The integer part of a number, toward zero (ToIntegerOrInfinity); NaN -> 0.
ToInteger(v) ==
    IF v.nan THEN 0
    ELSE IF v.num >= 0 THEN v.num \div v.den
    ELSE -((-v.num) \div v.den)

\* ToLength: the length Array.from reads from { length: v }.
ToLength(v) == IF ToInteger(v) <= 0 THEN 0 ELSE ToInteger(v)

\* Math.sqrt(n) for an integer n >= 0.
MathSqrt(n) == [sq |-> n]

\* Math.sqrt(n) <= t, for a number t.
SqrtLeq(d, t) == ~t.nan /\ t.num >= 0 /\ d.sq * t.den * t.den <= t.num * t.num

(***************************************************************************)
(* Array.prototype.slice(0, end).                                          *)
(***************************************************************************)
\* Mutant of slice: the end taken one too small.
sliceShort(s, end) ==
    LET e == ToInteger(end) - 1
        k == IF e < 0 THEN (IF Len(s) + e < 0 THEN 0 ELSE Len(s) + e)
             ELSE (IF e > Len(s) THEN Len(s) ELSE e)
    IN  SubSeq(s, 1, k)

slice(s, end) ==
    LET e == ToInteger(end)
        k == IF e < 0 THEN (IF Len(s) + e < 0 THEN 0 ELSE Len(s) + e)
             ELSE (IF e > Len(s) THEN Len(s) ELSE e)
    IN  SubSeq(s, 1, k)

(***************************************************************************)
(* FogNodeImpl.                                                            *)
(***************************************************************************)
\* new FogNodeImpl(id, x, y): connections starts empty.
FogNodeImpl(id, x, y) == [id |-> id, x |-> x, y |-> y, connections |-> <<>>]

\* Mutant of calculateProximity: the x difference used for both terms.
calculateProximitySameAxis(node, otherNode) ==
    MathSqrt((node.x - otherNode.x) * (node.x - otherNode.x)
             + (node.x - otherNode.x) * (node.x - otherNode.x))

calculateProximity(node, otherNode) ==
    MathSqrt((node.x - otherNode.x) * (node.x - otherNode.x)
             + (node.y - otherNode.y) * (node.y - otherNode.y))

(***************************************************************************)
(* initializeNetwork.                                                      *)
(***************************************************************************)
\* The placements of n nodes on the positions spots that repeat with period
\* free: outcomes of the Math.random() draws.
Placements(n, free, spots) ==
    LET f == IF n < free THEN n ELSE free
    IN  { [k \in 1..n |-> base[((k - 1) % f) + 1]] : base \in [1..f -> spots] }

\* Mutant of PlaceNodes: ids counted from 1.
PlaceNodesFromOne(pl) == [k \in 1..Len(pl) |-> FogNodeImpl(k, pl[k][1], pl[k][2])]

\* Array.from({ length: numNodes }, (_, i) => new FogNodeImpl(i, x, y)).
PlaceNodes(pl) == [k \in 1..Len(pl) |-> FogNodeImpl(k - 1, pl[k][1], pl[k][2])]

\* Mutant of Eligible: the node itself is not excluded.
EligibleSelf(node, otherNode, params) ==
    /\ SqrtLeq(calculateProximity(node, otherNode), params.proximityThreshold)
    /\ Lt(Num(Len(node.connections)), params.maxConnections)

\* Mutant of Eligible: the distance is not compared with the threshold.
EligibleAnyDistance(node, otherNode, params) ==
    /\ otherNode.id # node.id
    /\ Lt(Num(Len(node.connections)), params.maxConnections)

\* The filter's predicate, for the node being processed.
Eligible(node, otherNode, params) ==
    /\ otherNode.id # node.id
    /\ SqrtLeq(calculateProximity(node, otherNode), params.proximityThreshold)
    /\ Lt(Num(Len(node.connections)), params.maxConnections)

\* Mutant of potentialConnections: the filter's result is not sliced.
potentialConnectionsUncut(ns, node, params) ==
    LET Test(otherNode) == Eligible(node, otherNode, params)
    IN  SelectSeq(ns, Test)

\* Mutant of potentialConnections: the last maxConnections candidates are
\* kept instead of the first.
potentialConnectionsLast(ns, node, params) ==
    LET Test(otherNode) == Eligible(node, otherNode, params)
        all == SelectSeq(ns, Test)
        kept == slice(all, params.maxConnections)
    IN  SubSeq(all, Len(all) - Len(kept) + 1, Len(all))

potentialConnections(ns, node, params) ==
    LET Test(otherNode) == Eligible(node, otherNode, params)
    IN  slice(SelectSeq(ns, Test), params.maxConnections)

\* The edges the inner forEach pushes for node.
EdgesOf(node, pc_) ==
    [k \in 1..Len(pc_) |->
        [from |-> node.id, to |-> pc_[k].id,
         length |-> calculateProximity(node, pc_[k])]]

\* The ids the inner forEach pushes on node.connections.
IdsOf(pc_) == [k \in 1..Len(pc_) |-> pc_[k].id]

\* Mutant of ProcessNode: each selected node also records the processing
\* node among its own connections.
ProcessNodeBothWays(ns, es, i, params) ==
    LET node == ns[i]
        sel  == potentialConnections(ns, node, params)
        ids  == { sel[k].id : k \in DOMAIN sel }
    IN  << [k \in DOMAIN ns |->
              IF k = i THEN [ns[k] EXCEPT !.connections = @ \o IdsOf(sel)]
              ELSE IF ns[k].id \in ids
                   THEN [ns[k] EXCEPT !.connections = Append(@, node.id)]
                   ELSE ns[k]],
           es \o EdgesOf(node, sel) >>

\* One iteration of newNodes.forEach: the pair <<newNodes, newEdges>> after
\* the node at position i (1-based) has been processed.
ProcessNode(ns, es, i, params) ==
    LET node == ns[i]
        sel  == potentialConnections(ns, node, params)
    IN  << [ns EXCEPT ![i].connections = node.connections \o IdsOf(sel)],
           es \o EdgesOf(node, sel) >>

RECURSIVE ForEach(_, _, _, _)
\* The iterations i, i+1, ..., Len(ns) of newNodes.forEach.
ForEach(ns, es, i, params) ==
    IF i > Len(ns) THEN <<ns, es>>
    ELSE LET r == ProcessNode(ns, es, i, params)
         IN  ForEach(r[1], r[2], i + 1, params)

\* A whole call: the <<nodes, edges>> handed to setNodes and setEdges.
Generate(params, pl) == ForEach(PlaceNodes(pl), <<>>, 1, params)

(***************************************************************************)
(* SpecGen: one call of initializeNetwork, statement by statement.         *)
(***************************************************************************)
\* The thresholds SpecGen draws from.
GenThresholds == { Num(0), Num(8), Num(10), Rat(35, 2), Num(1000) }

GenParams ==
    [ numNodes : { Num(n) : n \in 1..MaxNodes },
      proximityThreshold : GenThresholds,
      maxConnections : { Num(c) : c \in 0..MaxCap },
      resourceCapacity : { Num(100) } ]

InitGen ==
    /\ networkParams \in GenParams
    /\ nodes = <<>>
    /\ edges = <<>>
    /\ mounted = FALSE
    /\ newNodes = <<>>
    /\ newEdges = <<>>
    /\ index = 0
    /\ pc = "start"

\* Lines 73-77: the nodes are created, newEdges is empty.
Place ==
    /\ pc = "start"
    /\ \E pl \in Placements(ToLength(networkParams.numNodes),
                            ToLength(networkParams.numNodes), Positions) :
          newNodes' = PlaceNodes(pl)
    /\ newEdges' = <<>>
    /\ index' = 1
    /\ pc' = "forEach"
    /\ UNCHANGED <<nodes, edges, networkParams, mounted>>

\* Lines 80-98: one iteration of the outer forEach.
Pass ==
    /\ pc = "forEach"
    /\ index <= Len(newNodes)
    /\ LET r == ProcessNode(newNodes, newEdges, index, networkParams)
       IN  /\ newNodes' = r[1]
           /\ newEdges' = r[2]
    /\ index' = index + 1
    /\ UNCHANGED <<nodes, edges, networkParams, mounted, pc>>

\* Lines 100-101: setNodes(newNodes); setEdges(newEdges).
Commit ==
    /\ pc = "forEach"
    /\ index > Len(newNodes)
    /\ nodes' = newNodes
    /\ edges' = newEdges
    /\ pc' = "done"
    /\ UNCHANGED <<networkParams, mounted, newNodes, newEdges, index>>

NextGen == Place \/ Pass \/ Commit

SpecGen == InitGen /\ [][NextGen]_vars

(***************************************************************************)
(* parseInt and parseFloat, on the text of an <input type="number">: a     *)
(* sequence of characters among the digits, "+", "-", "." and "e".         *)
(***************************************************************************)
IsDigit(c) == c \in {"0", "1", "2", "3", "4", "5", "6", "7", "8", "9"}

DigitValue(c) ==
    CASE c = "0" -> 0 [] c = "1" -> 1 [] c = "2" -> 2 [] c = "3" -> 3
      [] c = "4" -> 4 [] c = "5" -> 5 [] c = "6" -> 6 [] c = "7" -> 7
      [] c = "8" -> 8 [] c = "9" -> 9

RECURSIVE DigitRun(_)
\* The longest prefix of s made of digits.
DigitRun(s) ==
    IF s = <<>> \/ ~IsDigit(Head(s)) THEN <<>>
    ELSE <<Head(s)>> \o DigitRun(Tail(s))

RECURSIVE DigitsValue(_, _)
\* The decimal value of the digits ds, after the value acc of those before.
DigitsValue(ds, acc) ==
    IF ds = <<>> THEN acc
    ELSE DigitsValue(Tail(ds), 10 * acc + DigitValue(Head(ds)))

RECURSIVE Pow10(_)
Pow10(n) == IF n = 0 THEN 1 ELSE 10 * Pow10(n - 1)

\* s without its first n characters.
Drop(s, n) == SubSeq(s, n + 1, Len(s))

HasSign(s) == s # <<>> /\ Head(s) \in {"+", "-"}

IsNegative(s) == s # <<>> /\ Head(s) = "-"

\* parseInt(text): an optional sign and the digits that follow it; NaN when
\* no digit follows.
parseInt(text) ==
    LET body == IF HasSign(text) THEN Tail(text) ELSE text
        ds   == DigitRun(body)
        v    == DigitsValue(ds, 0)
    IN  IF ds = <<>> THEN NaN
        ELSE Num(IF IsNegative(text) THEN -v ELSE v)

\* parseFloat(text): the longest prefix that is a decimal literal (sign,
\* digits, fraction, exponent); NaN when there is none.
parseFloat(text) ==
    LET body   == IF HasSign(text) THEN Tail(text) ELSE text
        ip     == DigitRun(body)
        r1     == Drop(body, Len(ip))
        hasDot == r1 # <<>> /\ Head(r1) = "."
        fp     == IF hasDot THEN DigitRun(Tail(r1)) ELSE <<>>
        r2     == IF hasDot THEN Drop(r1, 1 + Len(fp)) ELSE r1
        hasE   == r2 # <<>> /\ Head(r2) \in {"e", "E"}
        r3     == IF hasE THEN Tail(r2) ELSE <<>>
        ed     == DigitRun(IF HasSign(r3) THEN Tail(r3) ELSE r3)
        ev     == DigitsValue(ed, 0)
        exp    == IF IsNegative(r3) THEN -ev ELSE ev
        e10    == exp - Len(fp)
        m      == DigitsValue(ip \o fp, 0)
        sm     == IF IsNegative(text) THEN -m ELSE m
    IN  IF ip = <<>> /\ fp = <<>> THEN NaN
        ELSE IF e10 >= 0 THEN Rat(sm * Pow10(e10), 1)
        ELSE Rat(sm, Pow10(-e10))

(***************************************************************************)
(* Spec: the mounted component.                                            *)
(***************************************************************************)
\* The texts typed in the three inputs (e.target.value).
NumNodesTexts ==
    { <<>>, <<"-", "3">>, <<"2">>, <<"3">>, <<"1", "e", "2">> }

ProximityTexts ==
    { <<>>, <<"5">>, <<"1", "2", ".", "5">>, <<"2", "e", "1">>, <<"2", "1", "0">> }

MaxConnectionsTexts ==
    { <<>>, <<"0">>, <<"2">>, <<"2", ".", "9">>, <<"1", "1">> }

Init ==
    /\ nodes = <<>>
    /\ edges = <<>>
    /\ networkParams = [ numNodes |-> Num(20),
                         proximityThreshold |-> Num(50),
                         maxConnections |-> Num(5),
                         resourceCapacity |-> Num(100) ]
    /\ mounted = FALSE
    /\ newNodes = <<>>
    /\ newEdges = <<>>
    /\ index = 0
    /\ pc = "idle"

\* initializeNetwork() run to completion with the parameters params.
initializeNetwork(params) ==
    \E pl \in Placements(ToLength(params.numNodes), MaxFree, FarPositions) :
        LET r == Generate(params, pl)
        IN  /\ nodes' = r[1]
            /\ edges' = r[2]

\* The effect's dependencies differ between two renders (Object.is).
DepsChanged(prev, next) ==
    \/ ~SameValue(prev.numNodes, next.numNodes)
    \/ ~SameValue(prev.proximityThreshold, next.proximityThreshold)

\* setNetworkParams(next), the re-render, and the effect of that render.
Rerender(next) ==
    /\ networkParams' = next
    /\ IF DepsChanged(networkParams, next)
       THEN initializeNetwork(next)
       ELSE UNCHANGED <<nodes, edges>>

\* The first render's effect.
Mount ==
    /\ ~mounted
    /\ pc = "idle"
    /\ initializeNetwork(networkParams)
    /\ mounted' = TRUE
    /\ UNCHANGED <<networkParams, newNodes, newEdges, index, pc>>

OnChangeNumNodes ==
    /\ mounted
    /\ \E text \in NumNodesTexts :
          Rerender([networkParams EXCEPT
                      !.numNodes = MathMax(Num(1), parseInt(text))])
    /\ UNCHANGED <<mounted, newNodes, newEdges, index, pc>>

OnChangeProximityThreshold ==
    /\ mounted
    /\ \E text \in ProximityTexts :
          Rerender([networkParams EXCEPT
                      !.proximityThreshold = MathMax(Num(10), parseFloat(text))])
    /\ UNCHANGED <<mounted, newNodes, newEdges, index, pc>>

OnChangeMaxConnections ==
    /\ mounted
    /\ \E text \in MaxConnectionsTexts :
          Rerender([networkParams EXCEPT
                      !.maxConnections = MathMax(Num(1), parseInt(text))])
    /\ UNCHANGED <<mounted, newNodes, newEdges, index, pc>>

\* The Regenerate Network button.
Regenerate ==
    /\ mounted
    /\ initializeNetwork(networkParams)
    /\ UNCHANGED <<networkParams, mounted, newNodes, newEdges, index, pc>>

Next ==
    \/ Mount
    \/ OnChangeNumNodes
    \/ OnChangeProximityThreshold
    \/ OnChangeMaxConnections
    \/ Regenerate

Spec == Init /\ [][Next]_vars

(***************************************************************************)
(* Properties of one generation pass (checked under SpecGen).              *)
(***************************************************************************)
\* The call has returned: nodes and edges hold its output.
Done == pc = "done"

\* The squared distance between the recorded positions of two output nodes,
\* written out from the coordinates.
Dist2(a, b) ==
    (nodes[a].x - nodes[b].x) * (nodes[a].x - nodes[b].x)
    + (nodes[a].y - nodes[b].y) * (nodes[a].y - nodes[b].y)

\* Positions a and b of the output are within the proximity threshold.
Within(a, b) ==
    LET t == networkParams.proximityThreshold
    IN  ~t.nan /\ t.num >= 0 /\ Dist2(a, b) * t.den * t.den <= t.num * t.num

\* The positions (1-based) of the output edges whose `from` is id.
OutEdges(id) == { k \in DOMAIN edges : edges[k].from = id }

\* The smaller of two integers.
Min(a, b) == IF a < b THEN a ELSE b

\* C1: a pass with numNodes >= 1 outputs exactly numNodes nodes, and the
\* node at position i (counted from 0) has id i.
C1_NodeIds ==
    (Done /\ Lt(Num(0), networkParams.numNodes)) =>
        /\ Num(Len(nodes)) = networkParams.numNodes
        /\ \A k \in DOMAIN nodes : nodes[k].id = k - 1

C1_Witness == Done /\ Len(nodes) = MaxNodes /\ nodes[MaxNodes].id = MaxNodes - 1

\* C2: in the output of a pass every node is the `from` of at most
\* maxConnections edges.
C2_OutDegreeCap ==
    Done => \A k \in DOMAIN nodes :
        Cardinality(OutEdges(nodes[k].id)) <= ToInteger(networkParams.maxConnections)

\* A node with more in-threshold neighbours than the cap, cut at the cap.
C2_Witness ==
    /\ Done
    /\ networkParams.maxConnections = Num(1)
    /\ \E a \in DOMAIN nodes :
          /\ Cardinality({ b \in DOMAIN nodes : b # a /\ Within(a, b) }) >= 2
          /\ Cardinality(OutEdges(nodes[a].id)) = 1

\* C3: every output edge joins two different ids, both ids of output nodes;
\* a pass with numNodes = 1 outputs one node and no edge.
C3_EdgeEndpoints ==
    Done =>
        /\ \A k \in DOMAIN edges :
              /\ edges[k].from # edges[k].to
              /\ \E a \in DOMAIN nodes : nodes[a].id = edges[k].from
              /\ \E b \in DOMAIN nodes : nodes[b].id = edges[k].to
        /\ networkParams.numNodes = Num(1) => (Len(nodes) = 1 /\ Len(edges) = 0)

\* Threshold 0 with two nodes on one spot: the node itself is at distance 0
\* too, and only the other one is linked.
C3_Witness ==
    /\ Done
    /\ networkParams.proximityThreshold = Num(0)
    /\ Len(nodes) >= 2
    /\ Len(edges) >= 1

\* C4: every output edge carries the Euclidean distance between the
\* recorded positions of its endpoints, and that distance is at most
\* proximityThreshold.
C4_EdgeLength ==
    Done => \A k \in DOMAIN edges :
        /\ edges[k].length = [sq |-> Dist2(edges[k].from + 1, edges[k].to + 1)]
        /\ Within(edges[k].from + 1, edges[k].to + 1)

\* An edge exactly as long as the threshold, beside a pair too far apart.
C4_Witness ==
    /\ Done
    /\ networkParams.proximityThreshold = Num(10)
    /\ \E k \in DOMAIN edges : edges[k].length.sq = 100
    /\ \E a, b \in DOMAIN nodes : ~Within(a, b)

\* Two output nodes share a position.
Coincident == \E a, b \in DOMAIN nodes : a # b /\ Dist2(a, b) = 0

\* C5 as stated: with proximityThreshold = 0 or maxConnections = 0 a pass
\* outputs no edge, whatever the placement.
C5_Original ==
    (Done /\ (networkParams.proximityThreshold = Num(0)
              \/ networkParams.maxConnections = Num(0)))
        => Len(edges) = 0

\* C5 amended: with maxConnections = 0, or with proximityThreshold = 0 and
\* no two nodes on the same position, a pass outputs no edge.
C5_ZeroEdges ==
    (Done /\ (networkParams.maxConnections = Num(0)
              \/ (networkParams.proximityThreshold = Num(0) /\ ~Coincident)))
        => Len(edges) = 0

C5_Witness ==
    /\ Done
    /\ networkParams.proximityThreshold = Num(0)
    /\ networkParams.maxConnections = Num(MaxCap)
    /\ Len(nodes) = MaxNodes
    /\ ~Coincident
    /\ Len(edges) = 0

\* C6: when every pair of nodes is within the threshold, every node ends
\* with exactly min(maxConnections, numNodes - 1) outgoing edges and there
\* are numNodes * min(maxConnections, numNodes - 1) edges; with 3 nodes and
\* maxConnections = 2 each node is linked to the other two, 6 edges in all.
C6_FullDegree ==
    (Done /\ \A a, b \in DOMAIN nodes : Within(a, b)) =>
        LET m == Min(ToInteger(networkParams.maxConnections), Len(nodes) - 1)
        IN  /\ \A a \in DOMAIN nodes : Cardinality(OutEdges(nodes[a].id)) = m
            /\ Len(edges) = Len(nodes) * m
            /\ (Len(nodes) = 3 /\ networkParams.maxConnections = Num(2)) =>
                  /\ Len(edges) = 6
                  /\ \A a, b \in DOMAIN nodes : a # b =>
                        \E k \in DOMAIN edges :
                            edges[k].from = a - 1 /\ edges[k].to = b - 1

C6_Witness ==
    /\ Done
    /\ networkParams.proximityThreshold = Num(1000)
    /\ networkParams.maxConnections = Num(2)
    /\ Len(nodes) = 3
    /\ Len(edges) = 6

\* The ids within the threshold of the node at position a, itself excluded.
Near(a) == { nodes[b].id : b \in { c \in DOMAIN nodes : c # a /\ Within(a, c) } }

\* C8: the targets of node i are the min(maxConnections, k) lowest ids among
\* its k in-threshold neighbours, whatever their distances; the edge sequence
\* is ordered by `from`, and within one `from` by ascending `to`.
C8_LowestIdsFirst ==
    Done =>
        /\ \A a \in DOMAIN nodes :
              { edges[k].to : k \in OutEdges(nodes[a].id) }
                = { j \in Near(a) :
                      Cardinality({ i \in Near(a) : i < j })
                        < ToInteger(networkParams.maxConnections) }
        /\ \A k, l \in DOMAIN edges : k < l =>
              \/ edges[k].from < edges[l].from
              \/ edges[k].from = edges[l].from /\ edges[k].to < edges[l].to

\* A node whose only edge goes to the lower id although a higher id in the
\* threshold is strictly nearer.
C8_Witness ==
    /\ Done
    /\ networkParams.maxConnections = Num(1)
    /\ \E a, b, c \in DOMAIN nodes :
          /\ b < c /\ a # b /\ a # c
          /\ Within(a, b) /\ Within(a, c)
          /\ Dist2(a, c) < Dist2(a, b)
          /\ { edges[k].to : k \in OutEdges(nodes[a].id) } = { nodes[b].id }

\* The `to` ids of the edges (of sequence es) whose `from` is id, in order.
RECURSIVE TargetsOf(_, _)
TargetsOf(es, id) ==
    IF es = <<>> THEN <<>>
    ELSE IF Head(es).from = id THEN <<Head(es).to>> \o TargetsOf(Tail(es), id)
    ELSE TargetsOf(Tail(es), id)

\* C9: the iteration for node i only appends to node i's connections and
\* changes no other node; when the pass completes every node's connections
\* is the sequence of `to` ids of its outgoing edges, at most maxConnections
\* long.
C9_OwnConnectionsOnly ==
    [][ /\ (pc = "forEach" /\ index <= Len(newNodes)) =>
              /\ Len(newNodes') = Len(newNodes)
              /\ \A j \in DOMAIN newNodes : j # index => newNodes'[j] = newNodes[j]
              /\ Len(newNodes'[index].connections) >= Len(newNodes[index].connections)
              /\ SubSeq(newNodes'[index].connections, 1,
                        Len(newNodes[index].connections))
                   = newNodes[index].connections
        /\ pc' = "done" =>
              \A a \in DOMAIN nodes' :
                  /\ nodes'[a].connections = TargetsOf(edges', nodes'[a].id)
                  /\ Len(nodes'[a].connections)
                       <= ToInteger(networkParams'.maxConnections)
      ]_vars

\* An edge i -> j of the output without an edge j -> i.
C9_Witness ==
    /\ Done
    /\ \E k \in DOMAIN edges :
          /\ \A l \in DOMAIN edges :
                ~(edges[l].from = edges[k].to /\ edges[l].to = edges[k].from)
          /\ nodes[edges[k].to + 1].connections # <<>>

(***************************************************************************)
(* Properties of the mounted component (checked under Spec).               *)
(***************************************************************************)
\* lo <= v <= hi, for a number v and integers lo, hi.
InRange(v, lo, hi) == ~v.nan /\ ~Lt(v, Num(lo)) /\ ~Lt(Num(hi), v)

\* C7: after any sequence of edits of the three inputs the parameters held
\* in networkParams satisfy numNodes in [1,50], proximityThreshold in
\* [10,200] and maxConnections in [1,10].
C7_ParamsInRange ==
    /\ InRange(networkParams.numNodes, 1, 50)
    /\ InRange(networkParams.proximityThreshold, 10, 200)
    /\ InRange(networkParams.maxConnections, 1, 10)

\* a <= b on numbers; false when either is NaN.
Leq(a, b) == ~a.nan /\ ~b.nan /\ ~Lt(b, a)

\* C10: once the mount effect has run, the displayed nodes and edges agree
\* with the parameters held: as many nodes as numNodes, every edge at most
\* proximityThreshold long, every node the `from` of at most maxConnections
\* edges.  Stated for the states whose parameters are in the ranges of C7,
\* so that a violation does not rest on a parameter out of its range.
C10_DisplayMatchesParams ==
    (mounted /\ C7_ParamsInRange) =>
        /\ SameValue(Num(Len(nodes)), networkParams.numNodes)
        /\ \A k \in DOMAIN edges :
              SqrtLeq(edges[k].length, networkParams.proximityThreshold)
        /\ \A a \in DOMAIN nodes :
              Leq(Num(Cardinality(OutEdges(nodes[a].id))),
                  networkParams.maxConnections)

====
